---- MODULE Spec2Model ----
(***************************************************************************)
(* State-machine model of src/smart_pointers.h: base_block / regular_block *)
(* / shared_block, SharedPtr, WeakPtr, EnableSharedFromThis, and the       *)
(* factories allocateShared / makeShared.                                  *)
(*                                                                         *)
(* The client program is a pool of SharedPtr variables (slot 1 is a        *)
(* SharedPtr<Base>, the others are SharedPtr<Derived>) and a pool of       *)
(* WeakPtr<Base> variables.  Base is a plain polymorphic class; Derived    *)
(* derives from Base and from EnableSharedFromThis<Derived>.  Every action *)
(* is one call of the library made by the client, with all nested calls    *)
(* (temporaries, destructors, destroy(), deallocate()) inlined.            *)
(*                                                                         *)
(* Next is the program that exercises every SharedPtr operation with       *)
(* CoreWeak WeakPtr variables; NextAlloc adds the calls whose allocation   *)
(* of a control block fails; NextWeak is the program that exercises every  *)
(* WeakPtr operation with WeakStrong SharedPtr variables.                  *)
(*                                                                         *)
(* Counters are size_t; a model value v stands for v mod 2^64, so a        *)
(* negative value is a wrapped counter and "== 0" is exact.                *)
(*                                                                         *)
(* Undefined behaviour: a call that touches a reclaimed control block,     *)
(* destroys an object a second time, deletes an object that is not on the  *)
(* heap, or inspects a destroyed object sets ub.  Its outcome is drawn by  *)
(* "stale": TRUE when reclaimed storage still holds its last contents (and *)
(* writes to it stick), FALSE when it reads as non-zero garbage / null     *)
(* pointers (and writes to it are lost).  Once ub is set the execution has *)
(* no meaning any more and the model stops there.                          *)
(***************************************************************************)
EXTENDS Integers, FiniteSets, Sequences, TLC

MaxStrong == 3      \* SharedPtr variables of the client
MaxWeak   == 2      \* WeakPtr variables of the client
CoreWeak  == 1      \* WeakPtr variables in use under Next
WeakStrong == 2     \* SharedPtr variables in use under NextWeak
MaxBlocks == 2      \* control blocks ever allocated
MaxObjs   == 2      \* managed objects ever constructed
MaxCalls  == 2      \* destroy()/deallocate()/destructor runs recorded per block/object

NULL == 0

Strongs == 1..MaxStrong
Weaks   == 1..MaxWeak
CoreWeaks == 1..CoreWeak
WeakStrongs == 1..WeakStrong
Blocks  == 1..MaxBlocks
Objs    == 1..MaxObjs

VARIABLES
  sp,     \* sp[i]  : SharedPtr variable i  {live, ptr = _ptr, cb = _control_block}
  wp,     \* wp[w]  : WeakPtr variable w    {live, ptr, cb}
  blk,    \* blk[b] : control block b
  obj,    \* obj[o] : managed object o
  ub,     \* undefined behaviour has been executed
  last,   \* the call the client made last, when it is a recorded one: {op, dst, src}
  track   \* the calls that are recorded in last (fixed along a behaviour)

vars == <<sp, wp, blk, obj, ub, last, track>>

\* static type of SharedPtr variable i
SlotType(i) == IF i = 1 THEN "Base" ELSE "Derived"

DeadH  == [live |-> FALSE, ptr |-> NULL, cb |-> NULL]
\* SharedPtr() / WeakPtr()
EmptyH == [live |-> TRUE, ptr |-> NULL, cb |-> NULL]
Handle(p, c) == [live |-> TRUE, ptr |-> p, cb |-> c]

\* st: "unborn" (never allocated), "raw" (storage allocated, block not
\* constructed), "live", "freed" (deallocate() ran).
\* object: the object the block was created for (shared_block::_object);
\* pointer: regular_block::_pointer.
\* destroys / deallocs: calls of destroy() / deallocate() so far.
\* badfree: deallocate() ran while a counter was not 0.
\* uaf: the block was read, written or dispatched on after deallocate().
NoBlock == [st |-> "unborn", kind |-> "none", shared |-> 0, weak |-> 0,
            object |-> NULL, pointer |-> NULL, destroys |-> 0, deallocs |-> 0,
            badfree |-> FALSE, uaf |-> FALSE]

\* home: NULL for an object made by new, else the shared_block that embeds it.
\* wcb: EnableSharedFromThis::_weak_ptr._control_block (its _ptr is the
\* object itself whenever wcb is set).  dtors: destructor runs so far.
NoObj == [st |-> "unborn", cls |-> "Base", home |-> NULL, wcb |-> NULL, dtors |-> 0]

Mem == [blk |-> blk, obj |-> obj, ub |-> ub]

----------------------------------------------------------------------------
\* Storage of a block / an object has been given back.
BlkFreed(m, b) == m.blk[b].st = "freed"
ObjFreed(m, o) == IF m.obj[o].home = NULL THEN m.obj[o].st = "dead"
                  ELSE BlkFreed(m, m.obj[o].home)

\* An access to block b or object o: undefined once its storage is gone.
Touch(m, b) == IF BlkFreed(m, b)
               THEN [m EXCEPT !.ub = TRUE, !.blk[b].uaf = TRUE] ELSE m

\* A write to a counter of block b.
SetShared(m, b, v, stale) ==
  IF BlkFreed(m, b) /\ ~stale THEN Touch(m, b)
  ELSE [Touch(m, b) EXCEPT !.blk[b].shared = v]
SetWeak(m, b, v, stale) ==
  IF BlkFreed(m, b) /\ ~stale THEN Touch(m, b)
  ELSE [Touch(m, b) EXCEPT !.blk[b].weak = v]

\* _control_block->_shared_counter == 0
SharedIsZero(m, b, stale) ==
  IF BlkFreed(m, b) /\ ~stale THEN FALSE ELSE m.blk[b].shared = 0
\* _control_block->_shared_counter == 0 && _control_block->_weak_counter == 0
BothZero(m, b, stale) ==
  IF BlkFreed(m, b) /\ ~stale THEN FALSE
  ELSE m.blk[b].shared = 0 /\ m.blk[b].weak = 0

\* regular_block::deallocate / shared_block::deallocate
deallocate(m, b) ==
  [Touch(m, b) EXCEPT !.blk[b].st = "freed",
            !.blk[b].deallocs = @ + 1,
            !.blk[b].badfree = @ \/ m.blk[b].shared # 0 \/ m.blk[b].weak # 0]

\* WeakPtr::~WeakPtr on a handle whose _control_block is c
WeakPtrDtor(m, c, stale) ==
  IF c = NULL THEN m
  ELSE LET m1 == SetWeak(m, c, m.blk[c].weak - 1, stale)
       IN IF BothZero(m1, c, stale) THEN deallocate(m1, c) ELSE Touch(m1, c)

\* The destructor of managed object o: ~Base, or ~Derived followed by
\* ~EnableSharedFromThis, which destroys _weak_ptr.
ObjDtor(m, o, stale) ==
  LET c  == IF ObjFreed(m, o) /\ ~stale THEN NULL ELSE m.obj[o].wcb
      m1 == [m EXCEPT !.obj[o].st = "dead", !.obj[o].dtors = @ + 1,
                      !.ub = @ \/ m.obj[o].st = "dead" \/ ObjFreed(m, o)]
  IN IF m.obj[o].cls = "Derived" THEN WeakPtrDtor(m1, c, stale) ELSE m1

\* std::default_delete: delete o, the destructor and then operator delete,
\* which is defined for an object made by new only
Deleter(m, o, stale) ==
  LET m1 == ObjDtor(m, o, stale)
  IN [m1 EXCEPT !.ub = @ \/ m.obj[o].home # NULL]

\* regular_block::destroy
RegularDestroy(m, b, stale) ==
  IF m.blk[b].pointer # NULL
  THEN LET m1 == Deleter(m, m.blk[b].pointer, stale)
       IN IF BlkFreed(m1, b) /\ ~stale THEN Touch(m1, b)
          ELSE [Touch(m1, b) EXCEPT !.blk[b].pointer = NULL]
  ELSE m

\* A shared_block whose destroy() leaves the embedded object alone.
SharedDestroySkips(m, b, stale) == m

\* shared_block::destroy
SharedDestroy(m, b, stale) == ObjDtor(m, m.blk[b].object, stale)

\* base_block::destroy, dispatched on the block's variant
destroy(m, b, stale) ==
  LET m1 == [m EXCEPT !.blk[b].destroys = @ + 1]
  IN IF m.blk[b].kind = "regular" THEN RegularDestroy(m1, b, stale)
     ELSE SharedDestroy(m1, b, stale)

\* SharedPtr::~SharedPtr on a handle h
SharedPtrDtor(m, h, stale) ==
  IF h.cb = NULL THEN m
  ELSE LET b  == h.cb
           m1 == SetShared(m, b, m.blk[b].shared - 1, stale)
           m2 == IF SharedIsZero(m1, b, stale) /\ h.ptr # NULL
                 THEN destroy(m1, b, stale) ELSE m1
       IN IF BothZero(m2, b, stale) THEN deallocate(m2, b) ELSE Touch(m2, b)

\* A constructor that shares the block without counting the new handle.
AddSharedNoCount(m, c, val, stale) == m

\* SharedPtr(int val, T* ptr, base_block* control_block): the counter part
AddShared(m, c, val, stale) ==
  IF c = NULL THEN m ELSE SetShared(m, c, m.blk[c].shared + val, stale)

\* WeakPtr copy / converting constructors: the counter part
AddWeak(m, c, stale) ==
  IF c = NULL THEN m ELSE SetWeak(m, c, m.blk[c].weak + 1, stale)

\* SharedPtr::use_count / WeakPtr::use_count
use_count(m, h) == IF h.cb = NULL THEN 0 ELSE m.blk[h.cb].shared

\* WeakPtr::expired
expired(m, h) == use_count(m, h) = 0

----------------------------------------------------------------------------
\* The smallest id not used yet, NULL when the pool is exhausted.
FreshBlk(m) == IF \E b \in Blocks : m.blk[b].st = "unborn"
               THEN CHOOSE b \in Blocks : /\ m.blk[b].st = "unborn"
                                          /\ \A c \in Blocks : c < b => m.blk[c].st # "unborn"
               ELSE NULL
FreshObj(m) == IF \E o \in Objs : m.obj[o].st = "unborn"
               THEN CHOOSE o \in Objs : /\ m.obj[o].st = "unborn"
                                        /\ \A q \in Objs : q < o => m.obj[q].st # "unborn"
               ELSE NULL

\* The recorded counters stay within the model's window.
InBounds(m) ==
  /\ \A b \in Blocks : /\ m.blk[b].destroys <= MaxCalls
                       /\ m.blk[b].deallocs <= MaxCalls
                       /\ m.blk[b].weak >= 0 - MaxCalls
                       /\ m.blk[b].shared >= 0 - MaxCalls
  /\ \A o \in Objs : m.obj[o].dtors <= MaxCalls

\* dynamic_cast<To*>(p) of a pointer held by a SharedPtr<From>
DynCast(m, to, from, p, stale) ==
  IF p = NULL THEN NULL
  ELSE IF to = from \/ to = "Base" THEN p
  ELSE IF m.obj[p].st = "dead" /\ ~stale THEN NULL
  ELSE IF m.obj[p].cls = "Derived" THEN p ELSE NULL

\* dynamic_cast inspects the object: undefined once the object is destroyed
CastUB(to, from, p) ==
  p # NULL /\ to # from /\ to # "Base" /\ obj[p].st = "dead"

\* new (_control_block) block_type(1, 0, ptr, del, allocator)
NewRegularBlock(m, b, o) ==
  [m EXCEPT !.blk[b] = [NoBlock EXCEPT !.st = "live", !.kind = "regular",
                                       !.shared = 1, !.weak = 0,
                                       !.object = o, !.pointer = o]]

\* EnableSharedFromThis::shared_from_this: _weak_ptr.lock()
SharedFromThisHandle(m, o) ==
  Handle(IF m.obj[o].wcb = NULL THEN NULL ELSE o, m.obj[o].wcb)

\* EnableSharedFromThis::set_pointer: _weak_ptr = ptr, which converts ptr to a
\* temporary WeakPtr and copy-assigns it (copy, swap, destroy the copy).
set_pointer(m, o, h, stale) ==
  LET old == m.obj[o].wcb
      m1  == AddWeak(m, h.cb, stale)
      m2  == AddWeak(m1, h.cb, stale)
      m3  == [m2 EXCEPT !.obj[o].wcb = h.cb]
      m4  == WeakPtrDtor(m3, old, stale)
  IN WeakPtrDtor(m4, h.cb, stale)

\* SharedPtr(U* ptr, Deleter, Allocator) applied to object o.
\* Result: ok (FALSE when no block id is left), the memory, the new handle.
FromRaw(m, o, stale) ==
  LET b == FreshBlk(m) IN
  IF m.obj[o].cls = "Derived"
  THEN LET sh == SharedFromThisHandle(m, o)
           m1 == AddShared(m, sh.cb, 1, stale)
       IN IF use_count(m1, sh) # 0
          THEN \* *this = shared_ptr; return;
               LET m2 == AddShared(m1, sh.cb, 1, stale)
               IN [ok |-> TRUE, m |-> SharedPtrDtor(m2, sh, stale),
                   h |-> Handle(sh.ptr, sh.cb)]
          ELSE IF b = NULL THEN [ok |-> FALSE, m |-> m, h |-> EmptyH]
               ELSE LET this == Handle(o, b)
                        m2   == NewRegularBlock(m1, b, o)
                        m3   == set_pointer(m2, o, this, stale)
                    IN [ok |-> TRUE, m |-> SharedPtrDtor(m3, sh, stale), h |-> this]
  ELSE IF b = NULL THEN [ok |-> FALSE, m |-> m, h |-> EmptyH]
       ELSE [ok |-> TRUE, m |-> NewRegularBlock(m, b, o), h |-> Handle(o, b)]

\* A failing constructor that has obtained the block's storage before it throws.
FromRawLeaksBlock(m, o, stale) ==
  LET b == FreshBlk(m)
  IN [ok |-> b # NULL,
      m  |-> IF b = NULL THEN m ELSE [m EXCEPT !.blk[b].st = "raw"]]

\* SharedPtr(U* ptr, Deleter, Allocator) applied to object o when
\* std::allocator_traits<block_alloc>::allocate throws std::bad_alloc: the
\* exception leaves the constructor, unwinding destroys the local
\* shared_ptr, and the SharedPtr under construction never exists.
\* ok is FALSE when the call allocates nothing (*this = shared_ptr; return;).
FromRawFails(m, o, stale) ==
  IF m.obj[o].cls = "Derived"
  THEN LET sh == SharedFromThisHandle(m, o)
           m1 == AddShared(m, sh.cb, 1, stale)
       IN IF use_count(m1, sh) # 0
          THEN [ok |-> FALSE, m |-> m]
          ELSE [ok |-> TRUE, m |-> SharedPtrDtor(m1, sh, stale)]
  ELSE [ok |-> TRUE, m |-> m]

\* The client's "new T": object o comes to life on the heap.
NewObj(m, o, cls) ==
  [m EXCEPT !.obj[o] = [NoObj EXCEPT !.st = "alive", !.cls = cls]]

\* The raw pointers the client may hand to a SharedPtr<SlotType(i)>: a
\* freshly allocated object of that type, or a living self-observing object.
RawArgs(i) ==
  {o \in Objs : \/ o = FreshObj(Mem)
                \/ /\ SlotType(i) = "Derived"
                   /\ obj[o].st = "alive" /\ obj[o].cls = "Derived"}

WithRaw(o, i) == IF obj[o].st = "unborn" THEN NewObj(Mem, o, SlotType(i)) ELSE Mem

NoLast == [op |-> "none", dst |-> 0, src |-> 0]

Commit(m, op, d, s) ==
  /\ ~ub
  /\ InBounds(m)
  /\ blk' = m.blk
  /\ obj' = m.obj
  /\ ub' = m.ub
  /\ last' = IF op \in track THEN [op |-> op, dst |-> d, src |-> s] ELSE NoLast
  /\ track' = track

----------------------------------------------------------------------------
InitState ==
  /\ sp = [i \in Strongs |-> DeadH]
  /\ wp = [w \in Weaks |-> DeadH]
  /\ blk = [b \in Blocks |-> NoBlock]
  /\ obj = [o \in Objs |-> NoObj]
  /\ ub = FALSE
  /\ last = NoLast

Init == InitState /\ track = {}

\* SharedPtr<T> x;
DefaultCtor(i) ==
  /\ ~sp[i].live
  /\ sp' = [sp EXCEPT ![i] = EmptyH]
  /\ Commit(Mem, "DefaultCtor", i, 0)
  /\ UNCHANGED wp

\* SharedPtr<T> x(p);
RawCtor(i, o) ==
  /\ ~sp[i].live
  /\ o \in RawArgs(i)
  /\ \E stale \in BOOLEAN :
       LET r == FromRaw(WithRaw(o, i), o, stale)
       IN /\ r.ok
          /\ sp' = [sp EXCEPT ![i] = r.h]
          /\ Commit(r.m, "RawCtor", i, o)
  /\ UNCHANGED wp

\* SharedPtr<T> x(p);  the allocation of the control block fails
RawCtorFails(i, o) ==
  /\ ~sp[i].live
  /\ o \in RawArgs(i)
  /\ \E stale \in BOOLEAN :
       LET r == FromRawFails(WithRaw(o, i), o, stale)
       IN /\ r.ok
          /\ sp' = sp
          /\ Commit(r.m, "RawCtorFails", i, o)
  /\ UNCHANGED wp

\* SharedPtr<T> x(y);  y of the same type
CopyCtor(i, j) ==
  /\ ~sp[i].live /\ sp[j].live /\ SlotType(i) = SlotType(j)
  /\ \E stale \in BOOLEAN :
       /\ sp' = [sp EXCEPT ![i] = Handle(sp[j].ptr, sp[j].cb)]
       /\ Commit(AddShared(Mem, sp[j].cb, 1, stale), "CopyCtor", i, j)
  /\ UNCHANGED wp

\* SharedPtr<T> x(y);  y a SharedPtr<U>
CopyCtorX(i, j) ==
  /\ ~sp[i].live /\ sp[j].live /\ SlotType(i) # SlotType(j)
  /\ \E stale \in BOOLEAN :
       /\ sp' = [sp EXCEPT ![i] =
                   Handle(DynCast(Mem, SlotType(i), SlotType(j), sp[j].ptr, stale),
                          sp[j].cb)]
       /\ Commit([AddShared(Mem, sp[j].cb, 1, stale) EXCEPT
                   !.ub = @ \/ CastUB(SlotType(i), SlotType(j), sp[j].ptr)],
                 "CopyCtorX", i, j)
  /\ UNCHANGED wp

\* A move constructor that forgets to empty its source.
MoveCtorKeepsSource(i, j) ==
  /\ ~sp[i].live /\ sp[j].live /\ SlotType(i) = SlotType(j)
  /\ sp' = [sp EXCEPT ![i] = Handle(sp[j].ptr, sp[j].cb)]
  /\ Commit(Mem, "MoveCtor", i, j)
  /\ UNCHANGED wp

\* SharedPtr<T> x(std::move(y));  y of the same type
MoveCtor(i, j) ==
  /\ ~sp[i].live /\ sp[j].live /\ SlotType(i) = SlotType(j)
  /\ sp' = [sp EXCEPT ![i] = Handle(sp[j].ptr, sp[j].cb), ![j] = EmptyH]
  /\ Commit(Mem, "MoveCtor", i, j)
  /\ UNCHANGED wp

\* SharedPtr<T> x(std::move(y));  y a SharedPtr<U>
MoveCtorX(i, j) ==
  /\ ~sp[i].live /\ sp[j].live /\ SlotType(i) # SlotType(j)
  /\ \E stale \in BOOLEAN :
       sp' = [sp EXCEPT ![i] =
                Handle(DynCast(Mem, SlotType(i), SlotType(j), sp[j].ptr, stale),
                       sp[j].cb),
              ![j] = EmptyH]
  /\ Commit([Mem EXCEPT !.ub = @ \/ CastUB(SlotType(i), SlotType(j), sp[j].ptr)],
            "MoveCtorX", i, j)
  /\ UNCHANGED wp

\* x = y;  SharedPtr(another).swap(*this), then the temporary dies
CopyAssign(i, j) ==
  /\ sp[i].live /\ sp[j].live /\ SlotType(i) = SlotType(j)
  /\ \E stale \in BOOLEAN :
       LET m1 == AddShared(Mem, sp[j].cb, 1, stale)
       IN /\ sp' = [sp EXCEPT ![i] = Handle(sp[j].ptr, sp[j].cb)]
          /\ Commit(SharedPtrDtor(m1, sp[i], stale), "CopyAssign", i, j)
  /\ UNCHANGED wp

\* x = y;  y a SharedPtr<U>
CopyAssignX(i, j) ==
  /\ sp[i].live /\ sp[j].live /\ SlotType(i) # SlotType(j)
  /\ \E stale \in BOOLEAN :
       LET m1 == [AddShared(Mem, sp[j].cb, 1, stale) EXCEPT
                    !.ub = @ \/ CastUB(SlotType(i), SlotType(j), sp[j].ptr)]
       IN /\ sp' = [sp EXCEPT ![i] =
                      Handle(DynCast(Mem, SlotType(i), SlotType(j), sp[j].ptr, stale),
                             sp[j].cb)]
          /\ Commit(SharedPtrDtor(m1, sp[i], stale), "CopyAssignX", i, j)
  /\ UNCHANGED wp

\* x = std::move(y);  SharedPtr(std::move(another)).swap(*this)
MoveAssign(i, j) ==
  /\ sp[i].live /\ sp[j].live /\ SlotType(i) = SlotType(j)
  /\ \E stale \in BOOLEAN :
       LET tmp == Handle(sp[j].ptr, sp[j].cb)
           s1  == [sp EXCEPT ![j] = EmptyH]
           old == s1[i]
       IN /\ sp' = [s1 EXCEPT ![i] = tmp]
          /\ Commit(SharedPtrDtor(Mem, old, stale), "MoveAssign", i, j)
  /\ UNCHANGED wp

\* x = std::move(y);  y a SharedPtr<U>
MoveAssignX(i, j) ==
  /\ sp[i].live /\ sp[j].live /\ SlotType(i) # SlotType(j)
  /\ \E stale \in BOOLEAN :
       LET tmp == Handle(DynCast(Mem, SlotType(i), SlotType(j), sp[j].ptr, stale),
                         sp[j].cb)
           old == sp[i]
           m1  == [Mem EXCEPT !.ub = @ \/ CastUB(SlotType(i), SlotType(j), sp[j].ptr)]
       IN /\ sp' = [sp EXCEPT ![j] = EmptyH, ![i] = tmp]
          /\ Commit(SharedPtrDtor(m1, old, stale), "MoveAssignX", i, j)
  /\ UNCHANGED wp

\* x.reset();
Reset(i) ==
  /\ sp[i].live
  /\ \E stale \in BOOLEAN :
       /\ sp' = [sp EXCEPT ![i] = EmptyH]
       /\ Commit(SharedPtrDtor(Mem, sp[i], stale), "Reset", i, 0)
  /\ UNCHANGED wp

\* x.reset(p);
ResetPtr(i, o) ==
  /\ sp[i].live
  /\ o \in RawArgs(i)
  /\ \E stale \in BOOLEAN :
       LET r == FromRaw(WithRaw(o, i), o, stale)
       IN /\ r.ok
          /\ sp' = [sp EXCEPT ![i] = r.h]
          /\ Commit(SharedPtrDtor(r.m, sp[i], stale), "ResetPtr", i, o)
  /\ UNCHANGED wp

\* x.reset(p);  the allocation of the control block fails inside
\* auto copy = SharedPtr(ptr, deleter, allocator), before swap(copy)
ResetPtrFails(i, o) ==
  /\ sp[i].live
  /\ o \in RawArgs(i)
  /\ \E stale \in BOOLEAN :
       LET r == FromRawFails(WithRaw(o, i), o, stale)
       IN /\ r.ok
          /\ sp' = sp
          /\ Commit(r.m, "ResetPtrFails", i, o)
  /\ UNCHANGED wp

\* x goes out of scope
Dtor(i) ==
  /\ sp[i].live
  /\ \E stale \in BOOLEAN :
       /\ sp' = [sp EXCEPT ![i] = DeadH]
       /\ Commit(SharedPtrDtor(Mem, sp[i], stale), "Dtor", i, 0)
  /\ UNCHANGED wp

\* x.swap(y);  y of the same type
Swap(i, j) ==
  /\ sp[i].live /\ sp[j].live /\ SlotType(i) = SlotType(j) /\ i # j
  /\ sp' = [sp EXCEPT ![i] = sp[j], ![j] = sp[i]]
  /\ Commit(Mem, "Swap", i, j)
  /\ UNCHANGED wp

\* A cross-type swap written without the local copy: another = *this
\* releases another's block while nothing else holds it.
SwapXNoCopy(i, j, stale) ==
  LET m2 == AddShared(Mem, sp[i].cb, 1, stale)
      m3 == SharedPtrDtor(m2, sp[j], stale)
      m4 == SharedPtrDtor(m3, sp[i], stale)
  IN <<Mem, m2, m3, m4>>

\* x.swap(y);  y a SharedPtr<U>.  The memory after each step of
\*   SharedPtr copy(another);   copy shares another's block
\*   another = *this;           a temporary shares this's block, is swapped
\*                              with another and dies with another's old value
\*   swap(copy);                and copy dies with this's old value
SwapXTrail(i, j, stale) ==
  LET m1 == [AddShared(Mem, sp[j].cb, 1, stale) EXCEPT
               !.ub = @ \/ CastUB(SlotType(i), SlotType(j), sp[j].ptr)
                         \/ CastUB(SlotType(j), SlotType(i), sp[i].ptr)]
      m2 == AddShared(m1, sp[i].cb, 1, stale)
      m3 == SharedPtrDtor(m2, sp[j], stale)
      m4 == SharedPtrDtor(m3, sp[i], stale)
  IN <<m1, m2, m3, m4>>

\* x.swap(y);  y a SharedPtr<U>
SwapX(i, j) ==
  /\ sp[i].live /\ sp[j].live /\ SlotType(i) # SlotType(j)
  /\ \E stale \in BOOLEAN :
       LET copy == Handle(DynCast(Mem, SlotType(i), SlotType(j), sp[j].ptr, stale),
                          sp[j].cb)
           tr   == SwapXTrail(i, j, stale)
           tmp  == Handle(DynCast(tr[1], SlotType(j), SlotType(i), sp[i].ptr, stale),
                          sp[i].cb)
       IN /\ sp' = [sp EXCEPT ![j] = tmp, ![i] = copy]
          /\ Commit(tr[4], "SwapX", i, j)
  /\ UNCHANGED wp

\* SharedPtr<T> x = makeShared<T>(args...);  throws: T's constructor throws
MakeShared(i, throws) ==
  /\ ~sp[i].live
  /\ LET b == FreshBlk(Mem)
         o == FreshObj(Mem)
         \* std::allocator_traits<block_alloc>::allocate(alloc, 1)
         m1 == [Mem EXCEPT !.blk[b].st = "raw"]
     IN /\ b # NULL
        /\ IF throws
           THEN /\ sp' = sp
                /\ Commit(m1, "MakeSharedThrow", i, 0)
           ELSE /\ o # NULL
                /\ LET m2 == [m1 EXCEPT
                                !.blk[b] = [NoBlock EXCEPT !.st = "live", !.kind = "shared",
                                                           !.shared = 1, !.weak = 0,
                                                           !.object = o],
                                !.obj[o] = [NoObj EXCEPT !.st = "alive",
                                                         !.cls = SlotType(i),
                                                         !.home = b]]
                   IN /\ sp' = [sp EXCEPT ![i] = Handle(o, b)]
                      /\ Commit(AddShared(m2, b, 0, FALSE), "MakeShared", i, o)
  /\ UNCHANGED wp

\* SharedPtr<Derived> x = o->shared_from_this();
SharedFromThis(i, o) ==
  /\ ~sp[i].live /\ SlotType(i) = "Derived"
  /\ obj[o].st = "alive" /\ obj[o].cls = "Derived"
  /\ \E stale \in BOOLEAN :
       LET h == SharedFromThisHandle(Mem, o)
       IN /\ sp' = [sp EXCEPT ![i] = h]
          /\ Commit(AddShared(Mem, h.cb, 1, stale), "SharedFromThis", i, o)
  /\ UNCHANGED wp

----------------------------------------------------------------------------
\* WeakPtr<Base> w;
WeakDefault(w) ==
  /\ ~wp[w].live
  /\ wp' = [wp EXCEPT ![w] = EmptyH]
  /\ Commit(Mem, "WeakDefault", w, 0)
  /\ UNCHANGED sp

\* WeakPtr<Base> w(x);
WeakFromShared(w, i) ==
  /\ ~wp[w].live /\ sp[i].live
  /\ \E stale \in BOOLEAN :
       /\ wp' = [wp EXCEPT ![w] = Handle(sp[i].ptr, sp[i].cb)]
       /\ Commit(AddWeak(Mem, sp[i].cb, stale), "WeakFromShared", w, i)
  /\ UNCHANGED sp

\* WeakCopy, WeakMove and WeakSwap act on two WeakPtr variables, so they
\* belong to NextWeak, the program that uses all MaxWeak of them.
\* WeakPtr<Base> w(v);
WeakCopy(w, v) ==
  /\ ~wp[w].live /\ wp[v].live
  /\ \E stale \in BOOLEAN :
       /\ wp' = [wp EXCEPT ![w] = Handle(wp[v].ptr, wp[v].cb)]
       /\ Commit(AddWeak(Mem, wp[v].cb, stale), "WeakCopy", w, v)
  /\ UNCHANGED sp

\* WeakPtr<Base> w(std::move(v));
WeakMove(w, v) ==
  /\ ~wp[w].live /\ wp[v].live
  /\ wp' = [wp EXCEPT ![w] = Handle(wp[v].ptr, wp[v].cb), ![v] = EmptyH]
  /\ Commit(Mem, "WeakMove", w, v)
  /\ UNCHANGED sp

\* WeakPtr::operator=(const WeakPtr&): WeakPtr copy(another); swap(copy);
WeakAssignBody(w, v, op) ==
  /\ wp[w].live /\ wp[v].live
  /\ \E stale \in BOOLEAN :
       LET m1 == AddWeak(Mem, wp[v].cb, stale)
       IN /\ wp' = [wp EXCEPT ![w] = Handle(wp[v].ptr, wp[v].cb)]
          /\ Commit(WeakPtrDtor(m1, wp[w].cb, stale), op, w, v)
  /\ UNCHANGED sp

\* w = v;
WeakAssign(w, v) == WeakAssignBody(w, v, "WeakAssign")

\* w = std::move(v);  WeakPtr declares no move assignment, so overload
\* resolution selects operator=(const WeakPtr&)
WeakMoveAssign(w, v) == WeakAssignBody(w, v, "WeakMoveAssign")

\* w.swap(v);
WeakSwap(w, v) ==
  /\ wp[w].live /\ wp[v].live /\ w # v
  /\ wp' = [wp EXCEPT ![w] = wp[v], ![v] = wp[w]]
  /\ Commit(Mem, "WeakSwap", w, v)
  /\ UNCHANGED sp

\* w goes out of scope
WeakDtor(w) ==
  /\ wp[w].live
  /\ \E stale \in BOOLEAN :
       /\ wp' = [wp EXCEPT ![w] = DeadH]
       /\ Commit(WeakPtrDtor(Mem, wp[w].cb, stale), "WeakDtor", w, 0)
  /\ UNCHANGED sp

\* SharedPtr<Base> x = w.lock();
Lock(i, w) ==
  /\ ~sp[i].live /\ SlotType(i) = "Base" /\ wp[w].live
  /\ \E stale \in BOOLEAN :
       /\ sp' = [sp EXCEPT ![i] = Handle(wp[w].ptr, wp[w].cb)]
       /\ Commit(AddShared(Mem, wp[w].cb, 1, stale), "Lock", i, w)
  /\ UNCHANGED wp

----------------------------------------------------------------------------
Next ==
  \/ \E i \in Strongs : DefaultCtor(i)
  \/ \E i \in Strongs, o \in Objs : RawCtor(i, o)
  \/ \E i \in Strongs, t \in BOOLEAN : MakeShared(i, t)
  \/ \E i, j \in Strongs : CopyCtor(i, j)
  \/ \E i, j \in Strongs : CopyCtorX(i, j)
  \/ \E i, j \in Strongs : MoveCtor(i, j)
  \/ \E i, j \in Strongs : MoveCtorX(i, j)
  \/ \E i, j \in Strongs : CopyAssign(i, j)
  \/ \E i, j \in Strongs : CopyAssignX(i, j)
  \/ \E i, j \in Strongs : MoveAssign(i, j)
  \/ \E i, j \in Strongs : MoveAssignX(i, j)
  \/ \E i \in Strongs : Reset(i)
  \/ \E i \in Strongs, o \in Objs : ResetPtr(i, o)
  \/ \E i \in Strongs : Dtor(i)
  \/ \E i, j \in Strongs : Swap(i, j)
  \/ \E i, j \in Strongs : SwapX(i, j)
  \/ \E i \in Strongs, o \in Objs : SharedFromThis(i, o)
  \/ \E w \in CoreWeaks : WeakDefault(w)
  \/ \E w \in CoreWeaks, i \in Strongs : WeakFromShared(w, i)
  \/ \E w, v \in CoreWeaks : WeakAssign(w, v)
  \/ \E w, v \in CoreWeaks : WeakMoveAssign(w, v)
  \/ \E w \in CoreWeaks : WeakDtor(w)
  \/ \E i \in Strongs, w \in CoreWeaks : Lock(i, w)

Spec == Init /\ [][Next]_vars

\* The same program with the moves of SharedPtr recorded in last.
InitMove == InitState /\ track = {"MoveCtor", "MoveAssign"}
SpecMove == InitMove /\ [][Next]_vars

\* The same program with the calls that consult EnableSharedFromThis recorded.
InitSelf == InitState /\ track = {"SharedFromThis", "RawCtor"}
SpecSelf == InitSelf /\ [][Next]_vars

\* The same program run with an allocator that may fail: every call that
\* allocates a control block from a raw pointer may also throw.
NextAlloc ==
  \/ Next
  \/ \E i \in Strongs, o \in Objs : RawCtorFails(i, o)
  \/ \E i \in Strongs, o \in Objs : ResetPtrFails(i, o)

\* The failing-allocator program with the failed allocations recorded.
InitAlloc == InitState /\ track = {"RawCtorFails", "ResetPtrFails"}
SpecAlloc == InitAlloc /\ [][NextAlloc]_vars

\* The same program with reset() of SharedPtr recorded.
InitReset == InitState /\ track = {"Reset"}
SpecReset == InitReset /\ [][Next]_vars

\* The same program with the swaps of SharedPtr recorded.
InitSwap == InitState /\ track = {"Swap", "SwapX"}
SpecSwap == InitSwap /\ [][Next]_vars

\* A program centred on WeakPtr: all its WeakPtr variables, one
\* SharedPtr<Base> and one SharedPtr<Derived> to create, share and release
\* the objects.
NextWeak ==
  \/ \E i \in WeakStrongs : DefaultCtor(i)
  \/ \E i \in WeakStrongs, o \in Objs : RawCtor(i, o)
  \/ \E i \in WeakStrongs, t \in BOOLEAN : MakeShared(i, t)
  \/ \E i, j \in WeakStrongs : CopyCtorX(i, j)
  \/ \E i \in WeakStrongs : Reset(i)
  \/ \E i \in WeakStrongs : Dtor(i)
  \/ \E w \in Weaks : WeakDefault(w)
  \/ \E w \in Weaks, i \in WeakStrongs : WeakFromShared(w, i)
  \/ \E w, v \in Weaks : WeakCopy(w, v)
  \/ \E w, v \in Weaks : WeakMove(w, v)
  \/ \E w, v \in Weaks : WeakAssign(w, v)
  \/ \E w, v \in Weaks : WeakMoveAssign(w, v)
  \/ \E w, v \in Weaks : WeakSwap(w, v)
  \/ \E w \in Weaks : WeakDtor(w)
  \/ \E i \in WeakStrongs, w \in Weaks : Lock(i, w)

\* The WeakPtr program with the moves of WeakPtr recorded.
InitWeak == InitState /\ track = {"WeakMove", "WeakMoveAssign"}
SpecWeak == InitWeak /\ [][NextWeak]_vars

\* The same program with the factory calls and the destructions recorded.
InitFactory == InitState /\ track = {"MakeShared", "Dtor"}
SpecFactory == InitFactory /\ [][Next]_vars

----------------------------------------------------------------------------
\* The live SharedPtr / WeakPtr variables that reference block b.
StrongOn(b) == {i \in Strongs : sp[i].live /\ sp[i].cb = b}
WeakOn(b)   == {w \in Weaks : wp[w].live /\ wp[w].cb = b}

\* C1: the lifetime of a managed object is ended at most once: its
\* destructor (run by the deleter of a regular_block or in place by a
\* shared_block) never runs a second time.
C1_DestroyedAtMostOnce == \A o \in Objs : obj[o].dtors <= 1

\* C2: whenever a call takes _shared_counter of a block from 1 to 0,
\* destroy() is invoked on that block during that call, whatever the raw
\* pointer of the handle that is released.
C2_DestroyOnLastRelease ==
  [][\A b \in Blocks :
       blk[b].st = "live" /\ blk[b].shared = 1 /\ blk'[b].shared = 0
         => blk'[b].destroys > blk[b].destroys]_vars

\* C3: deallocate() is called at most once on a control block, and only
\* while both of its counters are 0.
C3_DeallocateOnce ==
  \A b \in Blocks : blk[b].deallocs <= 1 /\ ~blk[b].badfree

\* C4: no call moves _shared_counter of a block from 0 back to a positive
\* value; lock() on an expired WeakPtr leaves it at 0.
C4_NoResurrection ==
  [][\A b \in Blocks :
       blk[b].st = "live" /\ blk[b].shared = 0 => blk'[b].shared = 0]_vars

\* C5: the _shared_counter of every control block whose storage has not
\* been reclaimed equals the number of live SharedPtr variables that
\* reference it, so use_count() is N on each of N copies.
C5_StrongCountIsHandles ==
  \A b \in Blocks :
    blk[b].st = "live" => blk[b].shared = Cardinality(StrongOn(b))

\* C5 witness: three copies of one SharedPtr are alive.
C5_Witness ==
  \E b \in Blocks :
    /\ blk[b].st = "live" /\ Cardinality(StrongOn(b)) >= 3
    /\ \A i \in StrongOn(b) : use_count(Mem, sp[i]) = Cardinality(StrongOn(b))

\* C6: expired() of a live WeakPtr is true exactly when the managed object
\* of its block has been destroyed (and is true when it has no block).
C6_ExpiredIffDestroyed ==
  \A w \in Weaks :
    wp[w].live =>
      IF wp[w].cb = NULL THEN expired(Mem, wp[w])
      ELSE expired(Mem, wp[w]) <=> obj[blk[wp[w].cb].object].st = "dead"

\* Object o is owned: a live SharedPtr points at it and its block counts it.
Owners(o) ==
  {i \in Strongs : /\ sp[i].live /\ sp[i].ptr = o /\ sp[i].cb # NULL
                   /\ blk[sp[i].cb].st = "live" /\ blk[sp[i].cb].shared > 0}

\* C7: shared_from_this() of an owned self-observing object returns a
\* SharedPtr to the object itself whose use_count() is the owners' count
\* plus one, however the ownership was created.
C7_SharedFromThisJoins ==
  [][last'.op = "SharedFromThis" =>
       LET i == last'.dst
           o == last'.src
       IN \A k \in Owners(o) :
            /\ sp'[i].ptr = o
            /\ sp'[i].cb = sp[k].cb
            /\ blk'[sp[k].cb].shared = blk[sp[k].cb].shared + 1]_vars

\* C8: SharedPtr(p) for a self-observing object that is already owned
\* allocates no control block: the new handle references the owners' block,
\* whose _shared_counter grows by exactly one, and _weak_ptr is not set again.
C8_RawCtorAliases ==
  [][last'.op = "RawCtor" =>
       LET i == last'.dst
           o == last'.src
       IN \A k \in Owners(o) :
            /\ \A b \in Blocks : blk[b].st = "unborn" => blk'[b].st = "unborn"
            /\ sp'[i].cb = sp[k].cb
            /\ blk'[sp[k].cb].shared = blk[sp[k].cb].shared + 1
            /\ obj'[o].wcb = obj[o].wcb]_vars

\* C10: after makeShared / allocateShared failed because the constructor of
\* the managed object threw, no allocated block storage is left unreclaimed.
C10_NoLeakOnThrow == \A b \in Blocks : blk[b].st # "raw"

\* C9 as stated: a move (construction or assignment) leaves the source
\* empty, gives the destination the source's pointer and block, and leaves
\* _shared_counter of the transferred block as it was.
C9_MoveKeepsCount ==
  [][last'.op \in {"MoveCtor", "MoveAssign"} =>
       LET i == last'.dst
           j == last'.src
           c == sp[j].cb
       IN /\ sp'[j] = EmptyH
          /\ sp'[i] = sp[j]
          /\ c # NULL => blk'[c].shared = blk[c].shared]_vars

\* C9 amended: a move construction, or a move assignment from another
\* variable, leaves the source empty and gives the destination the source's
\* pointer and block; _shared_counter of the transferred block is unchanged,
\* except that a move assignment to a destination that already referenced
\* that block lowers it by one.  A self-move-assignment changes nothing.
C9_MoveTransfers ==
  [][last'.op \in {"MoveCtor", "MoveAssign"} =>
       LET i == last'.dst
           j == last'.src
           c == sp[j].cb
       IN IF i = j
          THEN sp' = sp /\ blk' = blk
          ELSE /\ sp'[j] = EmptyH
               /\ sp'[i] = sp[j]
               /\ c # NULL =>
                    blk'[c].shared =
                      IF last'.op = "MoveAssign" /\ sp[i].cb = c
                      THEN blk[c].shared - 1 ELSE blk[c].shared]_vars

\* C9 witness: a move assignment has just transferred a block between two
\* variables; the source is empty and the destination owns the block.
C9_Witness ==
  /\ last.op = "MoveAssign" /\ last.dst # last.src
  /\ sp[last.src] = EmptyH
  /\ sp[last.dst].cb # NULL /\ sp[last.dst].ptr # NULL
  /\ use_count(Mem, sp[last.dst]) >= 1

\* C11: makeShared / allocateShared makes one allocation, a shared_block
\* that embeds the object, and returns a SharedPtr to that object with
\* use_count() == 1 and _weak_counter == 0; destroying that SharedPtr as the
\* next call runs the object's destructor once and deallocate() once, and
\* the storage is given back.
C11_FactoryRoundTrip ==
  [][/\ last'.op = "MakeShared" =>
          LET i == last'.dst
              o == last'.src
              b == sp'[i].cb
          IN /\ b # NULL /\ blk[b].st = "unborn"
             /\ \A c \in Blocks \ {b} : blk'[c] = blk[c]
             /\ blk'[b].st = "live" /\ blk'[b].kind = "shared"
             /\ blk'[b].object = o /\ obj'[o].home = b /\ obj'[o].st = "alive"
             /\ sp'[i].ptr = o
             /\ use_count([blk |-> blk', obj |-> obj', ub |-> ub'], sp'[i]) = 1
             /\ blk'[b].weak = 0
     /\ (last.op = "MakeShared" /\ last'.op = "Dtor" /\ last'.dst = last.dst) =>
          LET b == sp[last.dst].cb
              o == sp[last.dst].ptr
          IN /\ ~ub'
             /\ obj'[o].st = "dead" /\ obj'[o].dtors = 1
             /\ blk'[b].destroys = 1
             /\ blk'[b].st = "freed" /\ blk'[b].deallocs = 1 /\ ~blk'[b].badfree
             /\ \A c \in Blocks \ {b} : blk'[c] = blk[c]]_vars

\* C11 witness: the SharedPtr that makeShared returned has just been
\* destroyed; the embedded object is destroyed and the block reclaimed.
C11_Witness ==
  /\ last.op = "Dtor" /\ ~sp[last.dst].live /\ ~ub
  /\ \E b \in Blocks :
       /\ blk[b].kind = "shared" /\ blk[b].st = "freed"
       /\ blk[b].destroys = 1 /\ blk[b].deallocs = 1
       /\ obj[blk[b].object].dtors = 1
       /\ \A c \in Blocks \ {b} : blk[c].st = "unborn"

\* C12: when the allocation of the control block fails in SharedPtr(p) or
\* in reset(p), no control block comes into existence, every existing
\* control block keeps its counters, no variable changes (for reset the
\* handle keeps its pointer and block), and nothing undefined happens.
C12_AllocFailureAtomic ==
  [][last'.op \in {"RawCtorFails", "ResetPtrFails"} =>
       /\ blk' = blk
       /\ sp' = sp /\ wp' = wp
       /\ ub' = ub]_vars

\* C12 witness: reset(p) has just failed on a variable that owns an
\* object; it still owns it and p has no control block.
C12_Witness ==
  /\ last.op = "ResetPtrFails"
  /\ sp[last.dst].cb # NULL /\ sp[last.dst].ptr # NULL
  /\ sp[last.dst].ptr # last.src
  /\ use_count(Mem, sp[last.dst]) = 1
  /\ obj[sp[last.dst].ptr].st = "alive"
  /\ obj[last.src].st = "alive"
  /\ \A b \in Blocks : blk[b].object # last.src
  /\ \A i \in Strongs : sp[i].ptr # last.src

\* C13: no call reads or writes a control block after deallocate() has run
\* on it; in ~SharedPtr the steps after destroy() (_pointer = nullptr, the
\* second test of the counters) find the block still allocated.
C13_NoAccessAfterDeallocate == \A b \in Blocks : ~blk[b].uaf

\* C14: a = b for SharedPtr makes a reference b's block; _shared_counter of
\* that block is one higher than before, or unchanged when a referenced it
\* already (a = a included), in which case neither destroy() nor
\* deallocate() is called on it; a's previous block loses one reference; the
\* destructor of the object b points at does not run.
C14_CopyAssign ==
  [][\A i, j \in Strongs : (CopyAssign(i, j) \/ CopyAssignX(i, j)) =>
       LET new  == sp[j].cb
           old  == sp[i].cb
       IN /\ sp'[i].cb = new
          /\ sp'[j] = IF i = j THEN sp'[i] ELSE sp[j]
          /\ new # NULL =>
               blk'[new].shared =
                 IF old = new THEN blk[new].shared ELSE blk[new].shared + 1
          /\ (old # NULL /\ old # new) => blk'[old].shared = blk[old].shared - 1
          /\ sp[j].ptr # NULL => obj'[sp[j].ptr].dtors = obj[sp[j].ptr].dtors
          /\ (old # NULL /\ old = new) =>
               /\ blk'[new].destroys = blk[new].destroys
               /\ blk'[new].deallocs = blk[new].deallocs]_vars

\* C15: reset() leaves the SharedPtr empty; _shared_counter of the block it
\* referenced is one lower; the managed object's destructor runs in this
\* call exactly when the handle was the last one, and then the block is
\* reclaimed if _weak_counter was 0; no other block changes, and reset() on
\* an empty SharedPtr changes nothing.
C15_Reset ==
  [][last'.op = "Reset" =>
       LET i == last'.dst
           c == sp[i].cb
       IN /\ sp'[i] = EmptyH
          /\ \A b \in Blocks \ {c} : blk'[b] = blk[b]
          /\ c = NULL => obj' = obj
          /\ c # NULL =>
               LET o == blk[c].object
               IN /\ blk'[c].shared = blk[c].shared - 1
                  /\ obj'[o].dtors =
                       IF blk[c].shared = 1 THEN obj[o].dtors + 1 ELSE obj[o].dtors
                  /\ blk[c].shared = 1 => obj'[o].st = "dead"
                  /\ (blk[c].shared = 1 /\ blk[c].weak = 0) => blk'[c].st = "freed"
                  /\ blk[c].shared # 1 => blk'[c].st = blk[c].st]_vars

\* C16: x.swap(y) for SharedPtr, same-type or cross-type, exchanges the
\* control blocks of x and y; both counters of every block have their
\* former values, destroy() and deallocate() are not called, and after no
\* step of the cross-type variant is _shared_counter of either block 0.
C16_SwapKeepsCounts ==
  [][last'.op \in {"Swap", "SwapX"} =>
       LET i == last'.dst
           j == last'.src
       IN /\ sp'[i].cb = sp[j].cb /\ sp'[j].cb = sp[i].cb
          /\ last'.op = "Swap" => (sp'[i] = sp[j] /\ sp'[j] = sp[i])
          /\ \A k \in Strongs \ {i, j} : sp'[k] = sp[k]
          /\ \A c \in Blocks :
               /\ blk'[c].shared = blk[c].shared /\ blk'[c].weak = blk[c].weak
               /\ blk'[c].destroys = blk[c].destroys
               /\ blk'[c].deallocs = blk[c].deallocs
               /\ blk'[c].st = blk[c].st
          /\ obj' = obj
          /\ last'.op = "SwapX" =>
               \A stale \in BOOLEAN, k \in 1..4, c \in {sp[i].cb, sp[j].cb} \ {NULL} :
                 SwapXTrail(i, j, stale)[k].blk[c].shared > 0]_vars

\* C16 witness: a cross-type swap has just exchanged the blocks of two
\* SharedPtr that are each the only owner of a block.
C16_Witness ==
  /\ last.op = "SwapX"
  /\ sp[last.dst].cb # NULL /\ sp[last.src].cb # NULL
  /\ sp[last.dst].cb # sp[last.src].cb
  /\ \A c \in {sp[last.dst].cb, sp[last.src].cb} :
       /\ blk[c].st = "live" /\ blk[c].shared = 1
       /\ blk[c].destroys = 0 /\ obj[blk[c].object].st = "alive"

\* The self-observing objects whose internal _weak_ptr references block b.
InternalWeakOn(b) ==
  {o \in Objs : obj[o].st = "alive" /\ obj[o].cls = "Derived" /\ obj[o].wcb = b}

\* C17: after every call, _weak_counter of every block that is not
\* reclaimed is the number of live WeakPtr referencing it, the internal
\* _weak_ptr of living self-observing objects included; and constructing a
\* WeakPtr from a SharedPtr, copying, assigning and destroying WeakPtr
\* leave every _shared_counter as it was and do not call destroy().
C17_WeakCountIsHandles ==
  [][/\ \A b \in Blocks :
          blk'[b].st = "live" =>
            blk'[b].weak = Cardinality(WeakOn(b))' + Cardinality(InternalWeakOn(b))'
     /\ (\E w, v \in Weaks, i \in Strongs :
            \/ WeakFromShared(w, i) \/ WeakCopy(w, v) \/ WeakAssign(w, v)
            \/ WeakDtor(w)) =>
          \A b \in Blocks : /\ blk'[b].shared = blk[b].shared
                            /\ blk'[b].destroys = blk[b].destroys]_vars

\* C18: moving a WeakPtr into another variable, by construction or by
\* w = std::move(v), gives the destination the source's pointer and block,
\* leaves the source empty (no block, use_count() == 0) and leaves
\* _weak_counter of the transferred block as it was (the destination did
\* not reference that block before).
C18_WeakMoveTransfers ==
  [][(last'.op \in {"WeakMove", "WeakMoveAssign"} /\ last'.dst # last'.src) =>
       LET w == last'.dst
           v == last'.src
           c == wp[v].cb
       IN /\ wp'[w] = wp[v]
          /\ wp'[v] = EmptyH
          /\ use_count([blk |-> blk', obj |-> obj', ub |-> ub'], wp'[v]) = 0
          /\ (c # NULL /\ wp[w].cb # c) => blk'[c].weak = blk[c].weak]_vars

====
